---- MODULE Spec2Model ----
(***************************************************************************)
(* A model of reading.c: a plan is a text file of indentation-delimited   *)
(* entries plus a ".status" file holding the number of the current entry. *)
(* Each command-line invocation is one action on the two files.           *)
(***************************************************************************)
EXTENDS Integers, Sequences, FiniteSets, TLC

(***************************************************************************)
(* Bounds of the model.                                                    *)
(***************************************************************************)
\* longest input file handed to add (Spec)
MaxTextLen == 4
\* longest plan file found on disk at start (SpecIO)
MaxDiskLen == 2
\* largest num given to show
MaxShow == 2
\* largest in-range entry number given to set
MaxTarget == 4
\* largest magnitude of the small cursor values stored and read back (SpecStore)
MaxStoreVal == 30
\* most entries of the plan that two invocations move in at once (SpecConc)
MaxConcEntries == 3
\* longest plan file walked call by call (SpecScan)
MaxScanLen == 5
\* largest cursor found in a status file on disk (SpecShow), and most skip
\* calls of one walk (SpecScan)
MaxCursor == 4

(***************************************************************************)
(* Program constants.                                                      *)
(***************************************************************************)
INT_MAX == 2147483647
INT_MIN == -INT_MAX - 1
\* sizeof buf in plan_get_entry
BufSize == 32

(***************************************************************************)
(* Bytes.  A file is a sequence of one-character strings.                  *)
(***************************************************************************)
NL == "\n"
SP == " "
TAB == "\t"
EOF == "EOF"

\* the bytes plan texts are built from
TextChars == {"a", SP, TAB, NL}

isblank(c) == c \in {SP, TAB}

isdigit(c) == c \in {"0", "1", "2", "3", "4", "5", "6", "7", "8", "9"}

isspace(c) == c \in {SP, TAB, NL}

DigitVal(c) ==
  CASE c = "0" -> 0 [] c = "1" -> 1 [] c = "2" -> 2 [] c = "3" -> 3
    [] c = "4" -> 4 [] c = "5" -> 5 [] c = "6" -> 6 [] c = "7" -> 7
    [] c = "8" -> 8 [] c = "9" -> 9

DigitChar(d) ==
  CASE d = 0 -> "0" [] d = 1 -> "1" [] d = 2 -> "2" [] d = 3 -> "3"
    [] d = 4 -> "4" [] d = 5 -> "5" [] d = 6 -> "6" [] d = 7 -> "7"
    [] d = 8 -> "8" [] d = 9 -> "9"

\* getc on a stream over data whose next unread byte is data[pos]
getc(data, pos) == IF pos > Len(data) THEN EOF ELSE data[pos]

\* data[from..to], empty when to < from
Slice(data, from, to) == SubSeq(data, from, to)

(***************************************************************************)
(* clamp(low, val, high), the macro of lines 36-38.                        *)
(***************************************************************************)
\* clamp without its upper test
clamp_no_high(low, val, high) == IF val < low THEN low ELSE val

\* clamp without its lower test
clamp_no_low(low, val, high) == IF val > high THEN high ELSE val

clamp(low, val, high) ==
  IF val < low THEN low ELSE IF val > high THEN high ELSE val

(***************************************************************************)
(* The entry scanner.  A stream is the file's bytes and a read position.   *)
(***************************************************************************)
\* while ((c = getc(f)) != '\n') if (c == EOF) return 1;
\* the position after the newline consumed, 0 when EOF came first
RECURSIVE SkipLine(_, _)
SkipLine(data, pos) ==
  IF pos > Len(data) THEN 0
  ELSE IF data[pos] = NL THEN pos + 1
  ELSE SkipLine(data, pos + 1)

\* plan_file_next_entry that takes every line for the start of an entry
plan_file_next_entry_every_line(data, pos) ==
  LET p == SkipLine(data, pos) IN
  IF p = 0 \/ getc(data, p) = EOF THEN [ret |-> 1, pos |-> Len(data) + 1]
  ELSE [ret |-> 0, pos |-> p]

RECURSIVE plan_file_next_entry(_, _)
plan_file_next_entry(data, pos) ==
  LET p == SkipLine(data, pos) IN
  IF p = 0 THEN [ret |-> 1, pos |-> Len(data) + 1]
  ELSE IF isblank(getc(data, p)) THEN plan_file_next_entry(data, p + 1)
  ELSE IF getc(data, p) = EOF THEN [ret |-> 1, pos |-> Len(data) + 1]
  ELSE [ret |-> 0, pos |-> p]

\* while (!plan_file_next_entry(planfile)) entries++;
RECURSIVE CountLoop(_, _, _)
CountLoop(data, pos, entries) ==
  LET r == plan_file_next_entry(data, pos) IN
  IF r.ret = 0 THEN CountLoop(data, r.pos, entries + 1) ELSE entries

\* the scan of plan_count_entries over an opened plan file
CountEntries(data) ==
  IF getc(data, 1) = EOF THEN 0
  ELSE CountLoop(data, 2, IF ~isblank(data[1]) THEN 1 ELSE 0)

\* while ((c = getc(f)) != '\n') if (c == EOF) {putchar('\n'); return 1;}
\*                               else putchar(c);
\* putchar('\n');
PrintLine(data, pos) ==
  LET p == SkipLine(data, pos) IN
  IF p = 0
    THEN [eof |-> TRUE, pos |-> Len(data) + 1,
          out |-> Slice(data, pos, Len(data)) \o <<NL>>]
    ELSE [eof |-> FALSE, pos |-> p, out |-> Slice(data, pos, p - 2) \o <<NL>>]

\* no blank is passed over
SkipBlanks_none(data, pos) == pos

\* while (isblank(c = getc(f))) ; ungetc(c, f);
RECURSIVE SkipBlanks(_, _)
SkipBlanks(data, pos) ==
  IF isblank(getc(data, pos)) THEN SkipBlanks(data, pos + 1) ELSE pos

\* the loop over description lines, lines 428-448
RECURSIVE PrintDescription(_, _, _)
PrintDescription(data, pos, out) ==
  LET c == getc(data, pos) IN
  IF isblank(c)
    THEN LET l == PrintLine(data, SkipBlanks(data, pos + 1)) IN
         IF l.eof THEN [ret |-> 1, pos |-> l.pos, out |-> out \o <<TAB>> \o l.out]
         ELSE PrintDescription(data, l.pos, out \o <<TAB>> \o l.out)
  ELSE IF c = EOF THEN [ret |-> 1, pos |-> Len(data) + 1, out |-> out]
  ELSE [ret |-> 0, pos |-> pos, out |-> out]

plan_file_print_entry(data, pos) ==
  LET t == PrintLine(data, pos) IN
  IF t.eof THEN [ret |-> 1, pos |-> t.pos, out |-> t.out]
  ELSE PrintDescription(data, t.pos, t.out)

\* for (int i = 0; i < entry; i++) plan_file_next_entry(planfile);
RECURSIVE SkipEntries(_, _, _)
SkipEntries(data, pos, entry) ==
  IF entry <= 0 THEN pos
  ELSE SkipEntries(data, plan_file_next_entry(data, pos).pos, entry - 1)

\* for (int i = 0; i < num; i++) if (plan_file_print_entry(planfile)) break;
RECURSIVE PrintEntries(_, _, _, _)
PrintEntries(data, pos, num, out) ==
  IF num <= 0 THEN out
  ELSE LET r == plan_file_print_entry(data, pos) IN
       IF r.ret # 0 THEN out \o r.out
       ELSE PrintEntries(data, r.pos, num - 1, out \o r.out)

\* show without the entry-- of line 319
ShowSeek_no_decrement(data, entry) ==
  LET c == getc(data, 1)
      start == IF ~isblank(c) THEN 1 ELSE 2
  IN SkipEntries(data, start, entry)

\* show with the entry-- of line 319 done whatever the first byte is
ShowSeek_always_decrement(data, entry) ==
  LET c == getc(data, 1)
      start == IF ~isblank(c) THEN 1 ELSE 2
  IN SkipEntries(data, start, entry - 1)

\* where the stream of show is when its first loop ends, lines 310-323
ShowSeek(data, entry) ==
  LET c == getc(data, 1)
      skips == IF ~isblank(c) THEN entry - 1 ELSE entry
      start == IF ~isblank(c) THEN 1 ELSE 2
  IN SkipEntries(data, start, skips)

\* the walk of show over an opened plan file, lines 310-327
ShowWalk(data, entry, num) ==
  PrintEntries(data, ShowSeek(data, entry), num, <<>>)

(***************************************************************************)
(* The status file's text: fprintf("%d") writes it, parse_int reads it.    *)
(***************************************************************************)
\* the decimal digits of n <= 0, most significant first
RECURSIVE NegDigits(_)
NegDigits(n) ==
  LET d == (10 - (n % 10)) % 10 IN
  IF n > -10 THEN <<DigitChar(-n)>>
  ELSE NegDigits((n + d) \div 10) \o <<DigitChar(d)>>

\* fprintf(status, "%d\n", v): the number and a newline
FormatInt_newline(v) == (IF v < 0 THEN <<"-">> \o NegDigits(v) ELSE NegDigits(-v)) \o <<NL>>

\* what fprintf(status, "%d", v) writes
FormatInt(v) == IF v < 0 THEN <<"-">> \o NegDigits(v) ELSE NegDigits(-v)

\* strtol's skip of leading white space
RECURSIVE SkipSpace(_, _)
SkipSpace(str, i) ==
  IF i <= Len(str) /\ isspace(str[i]) THEN SkipSpace(str, i + 1) ELSE i

\* strtol's digit loop from str[i] on, accumulating -|value| in acc;
\* over is set once the value has left the range of int
RECURSIVE ScanDigits(_, _, _, _)
ScanDigits(str, i, acc, over) ==
  IF i > Len(str) \/ ~isdigit(str[i]) THEN [end |-> i, acc |-> acc, over |-> over]
  ELSE LET d == DigitVal(str[i])
           fits == ~over /\ (acc > -214748364 \/ (acc = -214748364 /\ d <= 8))
       IN ScanDigits(str, i + 1, IF fits THEN acc * 10 - d ELSE acc, ~fits)

\* parse_int, lines 553-568: errno and the value returned
parse_int(str) ==
  LET s == SkipSpace(str, 1)
      neg == s <= Len(str) /\ str[s] = "-"
      d == IF s <= Len(str) /\ str[s] \in {"-", "+"} THEN s + 1 ELSE s
      r == ScanDigits(str, d, 0, FALSE)
      end == IF r.end = d THEN 1 ELSE r.end
  IN IF Len(str) = 0 \/ end <= Len(str) THEN [errno |-> "EINVAL", val |-> 0]
     ELSE IF r.over \/ (~neg /\ r.acc = INT_MIN) THEN [errno |-> "ERANGE", val |-> 0]
     ELSE [errno |-> "OK", val |-> IF neg THEN r.acc ELSE -r.acc]

(***************************************************************************)
(* The state: the files of the plan directory, and what the last           *)
(* invocation was and printed.                                             *)
(***************************************************************************)
VARIABLES
  original,   \* the bytes of the input file that add imports
  plan,       \* <plandir>/<plan>:        [exists, data]
  status,     \* <plandir>/<plan>.status: [exists, data]
  stdout,     \* standard output of the last invocation
  last,       \* the last invocation: [op, arg, fault, res, entries]
  handles,    \* FILE handles the last invocation's functions returned without closing
  stream,     \* the last call on an open plan file:
              \*   [walk, call, n, from, ret, pos, out]
  run         \* the invocations running at the same time: [pc, op, entries, entry, buf]

vars == <<original, plan, status, stdout, last, handles, stream, run>>

NoFile == [exists |-> FALSE, data |-> <<>>]

File(data) == [exists |-> TRUE, data |-> data]

\* argv[2], the plan's name, as printed by summary
PlanName == <<"p">>

\* I/O steps that can fail for a reason other than a missing file
Faults == {"none", "open_plan", "read_status", "open_write", "write", "close"}

\* the faults of the steps that write the status file
WriteFaults == {"open_write", "write", "close"}

Ok(v) == [err |-> "ok", val |-> v]

Err(e) == [err |-> e, val |-> 0]

\* plan_count_entries, lines 368-392, with fault f injected
plan_count_entries(f) ==
  IF ~plan.exists THEN Err("NotFound")
  ELSE IF f = "open_plan" THEN Err("IOError")
  ELSE Ok(CountEntries(plan.data))

\* plan_get_entry, lines 451-483, with fault f injected
plan_get_entry(f) ==
  IF ~status.exists THEN Err("NotFound")
  ELSE IF f = "read_status" THEN Err("IOError")
  ELSE IF Len(status.data) >= BufSize - 1 THEN Err("Corrupt")
  ELSE LET r == parse_int(status.data) IN
       IF r.errno # "OK" THEN Err("Corrupt") ELSE Ok(r.val)

\* plan_set_entry, lines 485-499, with fault f injected: the result and the
\* status file it leaves.  fopen(path, "w") truncates the file before anything
\* is written; fclose's result is not looked at.
plan_set_entry(entry, f) ==
  IF f = "open_write" THEN [err |-> "IOError", file |-> status]
  ELSE IF f = "write" THEN [err |-> "IOError", file |-> File(<<>>)]
  ELSE IF f = "close" THEN [err |-> "ok", file |-> File(<<>>)]
  ELSE [err |-> "ok", file |-> File(FormatInt(entry))]

\* the handles plan_count_entries leaves open when it returns: line 384
\* returns 0 for an empty file without the fclose of line 389
plan_count_entries_open(f) ==
  IF plan_count_entries(f).err = "ok" /\ getc(plan.data, 1) = EOF THEN 1 ELSE 0

\* what the invocation leaves in last
Done(op, arg, f, res, entries) ==
  last' = [op |-> op, arg |-> arg, fault |-> f, res |-> res, entries |-> entries]

(***************************************************************************)
(* Inputs.                                                                 *)
(***************************************************************************)
Texts(n) == UNION {[1..k -> TextChars] : k \in 0..n}

\* the entry argument of -t, already through parse_int
Targets == {-100, 100000} \cup (-1..MaxTarget)

\* the num argument of -s
Nums == -1..MaxShow

\* the arguments tried where I/O may fail
TargetsIO == {-100, 1, 2, 100000}

NumsIO == {0, 1, 2}

\* status files found on disk that no invocation of the program wrote
DiskStatus == {<<"1">>, <<"2">>, <<"0">>, <<"-", "1">>, <<"9">>, <<"1", "2", "x">>}

(***************************************************************************)
(* The subcommands.  An invocation that fails exits through err/errx.      *)
(***************************************************************************)
\* add, lines 208-250
add ==
  /\ plan' = File(original)
  /\ status' = File(<<"1">>)
  /\ stdout' = <<>>
  /\ Done("add", 0, "none", "ok", -1)
  /\ handles' = 0
  /\ UNCHANGED <<original, stream, run>>

\* delete, lines 252-268
delete ==
  /\ IF ~plan.exists
       THEN Done("delete", 0, "none", "NotFound", -1) /\ UNCHANGED <<plan, status>>
       ELSE /\ plan' = NoFile
            /\ IF ~status.exists
                 THEN Done("delete", 0, "none", "IOError", -1) /\ UNCHANGED status
                 ELSE Done("delete", 0, "none", "ok", -1) /\ status' = NoFile
  /\ stdout' = <<>>
  /\ handles' = 0
  /\ UNCHANGED <<original, stream, run>>

\* next, lines 270-276
next(f) ==
  LET entries == plan_count_entries(f)
      entry == plan_get_entry(f)
      w == plan_set_entry(clamp(1, entry.val + 1, entries.val + 1), f)
  IN /\ \/ f = "none"
        \/ f = "open_plan" /\ plan.exists
        \/ f = "read_status" /\ entries.err = "ok" /\ status.exists
        \/ f \in WriteFaults /\ entries.err = "ok" /\ entry.err = "ok"
     /\ IF entries.err # "ok"
          THEN Done("next", 0, f, entries.err, -1) /\ UNCHANGED status
          ELSE IF entry.err # "ok"
            THEN Done("next", 0, f, entry.err, entries.val) /\ UNCHANGED status
            ELSE Done("next", 0, f, w.err, entries.val) /\ status' = w.file
     /\ stdout' = <<>>
     /\ handles' = plan_count_entries_open(f)
     /\ UNCHANGED <<original, plan, stream, run>>

\* previous, lines 278-284
previous(f) ==
  LET entries == plan_count_entries(f)
      entry == plan_get_entry(f)
      w == plan_set_entry(clamp(1, entry.val - 1, entries.val + 1), f)
  IN /\ \/ f = "none"
        \/ f = "open_plan" /\ plan.exists
        \/ f = "read_status" /\ entries.err = "ok" /\ status.exists
        \/ f \in WriteFaults /\ entries.err = "ok" /\ entry.err = "ok"
     /\ IF entries.err # "ok"
          THEN Done("previous", 0, f, entries.err, -1) /\ UNCHANGED status
          ELSE IF entry.err # "ok"
            THEN Done("previous", 0, f, entry.err, entries.val) /\ UNCHANGED status
            ELSE Done("previous", 0, f, w.err, entries.val) /\ status' = w.file
     /\ stdout' = <<>>
     /\ handles' = plan_count_entries_open(f)
     /\ UNCHANGED <<original, plan, stream, run>>

\* set with the arguments of clamp in the wrong order
set_misordered(entry, f) ==
  LET entries == plan_count_entries(f)
      w == plan_set_entry(clamp(1, entries.val + 1, entry), f)
  IN /\ \/ f = "none"
        \/ f = "open_plan" /\ plan.exists
        \/ f \in WriteFaults /\ entries.err = "ok"
     /\ IF entries.err # "ok"
          THEN Done("set", entry, f, entries.err, -1) /\ UNCHANGED status
          ELSE Done("set", entry, f, w.err, entries.val) /\ status' = w.file
     /\ stdout' = <<>>
     /\ handles' = plan_count_entries_open(f)
     /\ UNCHANGED <<original, plan, stream, run>>

\* set, lines 286-291
set(entry, f) ==
  LET entries == plan_count_entries(f)
      w == plan_set_entry(clamp(1, entry, entries.val + 1), f)
  IN /\ \/ f = "none"
        \/ f = "open_plan" /\ plan.exists
        \/ f \in WriteFaults /\ entries.err = "ok"
     /\ IF entries.err # "ok"
          THEN Done("set", entry, f, entries.err, -1) /\ UNCHANGED status
          ELSE Done("set", entry, f, w.err, entries.val) /\ status' = w.file
     /\ stdout' = <<>>
     /\ handles' = plan_count_entries_open(f)
     /\ UNCHANGED <<original, plan, stream, run>>

\* what show(plan, num) prints, or the error it exits with, lines 293-330
ShowRun(num, f) ==
  IF ~plan.exists THEN [err |-> "NotFound", out |-> <<>>]
  ELSE IF f = "open_plan" THEN [err |-> "IOError", out |-> <<>>]
  ELSE LET entry == plan_get_entry(f) IN
       IF entry.err # "ok" THEN [err |-> entry.err, out |-> <<>>]
       ELSE [err |-> "ok", out |-> ShowWalk(plan.data, entry.val, num)]

\* show that stores the skip count it computed
show_storing(num, f) ==
  LET r == ShowRun(num, f) IN
  /\ \/ f = "none"
     \/ f = "open_plan" /\ plan.exists
     \/ f = "read_status" /\ plan.exists /\ status.exists
  /\ stdout' = r.out
  /\ Done("show", num, f, r.err, -1)
  /\ status' = IF r.err = "ok"
                 THEN File(FormatInt(plan_get_entry(f).val - 1)) ELSE status
  /\ handles' = 0
  /\ UNCHANGED <<original, plan, stream, run>>

\* show as a subcommand
show(num, f) ==
  LET r == ShowRun(num, f) IN
  /\ \/ f = "none"
     \/ f = "open_plan" /\ plan.exists
     \/ f = "read_status" /\ plan.exists /\ status.exists
  /\ stdout' = r.out
  /\ Done("show", num, f, r.err, -1)
  /\ handles' = 0
  /\ UNCHANGED <<original, plan, status, stream, run>>

\* printf("%s (end of plan)\n", plan)
EndOfPlan ==
  PlanName \o <<" ", "(", "e", "n", "d", " ", "o", "f", " ", "p", "l", "a", "n", ")", NL>>

\* printf("%s (%d/%d): ", plan, entry, entries)
Progress(entry, entries) ==
  PlanName \o <<" ", "(">> \o FormatInt(entry) \o <<"/">> \o FormatInt(entries)
           \o <<")", ":", " ">>

\* summary that takes the last entry for the end of the plan
summary_ge(f) ==
  LET entries == plan_count_entries(f)
      entry == plan_get_entry(f)
      r == ShowRun(1, f)
  IN /\ \/ f = "none"
        \/ f = "open_plan" /\ plan.exists
        \/ f = "read_status" /\ plan.exists /\ status.exists
     /\ IF entries.err # "ok"
          THEN Done("summary", 0, f, entries.err, -1) /\ stdout' = <<>>
          ELSE IF entry.err # "ok"
            THEN Done("summary", 0, f, entry.err, entries.val) /\ stdout' = <<>>
            ELSE IF entry.val >= entries.val
              THEN Done("summary", 0, f, "ok", entries.val) /\ stdout' = EndOfPlan
              ELSE /\ Done("summary", 0, f, r.err, entries.val)
                   /\ stdout' = Progress(entry.val, entries.val) \o r.out
     /\ handles' = IF entries.err = "ok" /\ entry.err = "ok" /\ ~(entry.val >= entries.val)
                    THEN 2 * plan_count_entries_open(f)
                    ELSE plan_count_entries_open(f)
     /\ UNCHANGED <<original, plan, status, stream, run>>

\* summary of one named plan, lines 332-345
summary(f) ==
  LET entries == plan_count_entries(f)
      entry == plan_get_entry(f)
      r == ShowRun(1, f)
  IN /\ \/ f = "none"
        \/ f = "open_plan" /\ plan.exists
        \/ f = "read_status" /\ plan.exists /\ status.exists
     /\ IF entries.err # "ok"
          THEN Done("summary", 0, f, entries.err, -1) /\ stdout' = <<>>
          ELSE IF entry.err # "ok"
            THEN Done("summary", 0, f, entry.err, entries.val) /\ stdout' = <<>>
            ELSE IF entry.val > entries.val
              THEN Done("summary", 0, f, "ok", entries.val) /\ stdout' = EndOfPlan
              ELSE /\ Done("summary", 0, f, r.err, entries.val)
                   /\ stdout' = Progress(entry.val, entries.val) \o r.out
     /\ handles' = IF entries.err = "ok" /\ entry.err = "ok" /\ ~(entry.val > entries.val)
                    THEN 2 * plan_count_entries_open(f)
                    ELSE plan_count_entries_open(f)
     /\ UNCHANGED <<original, plan, status, stream, run>>

\* summary of every plan of the directory, lines 346-365: the directory holds
\* the plan file under PlanName and its status file under PlanName.status,
\* and the loop passes over the names that end in ".status"
summary_all ==
  LET entries == plan_count_entries("none")
      entry == plan_get_entry("none")
      r == ShowRun(1, "none")
  IN /\ IF ~plan.exists
          THEN Done("summary_all", 0, "none", "ok", -1) /\ stdout' = <<>>
          ELSE IF entry.err # "ok"
            THEN Done("summary_all", 0, "none", entry.err, entries.val) /\ stdout' = <<>>
            ELSE IF entry.val > entries.val
              THEN Done("summary_all", 0, "none", "ok", entries.val) /\ stdout' = EndOfPlan
              ELSE /\ Done("summary_all", 0, "none", r.err, entries.val)
                   /\ stdout' = Progress(entry.val, entries.val) \o r.out
     /\ handles' = IF plan.exists /\ entry.err = "ok" /\ ~(entry.val > entries.val)
                    THEN 2 * plan_count_entries_open("none")
                    ELSE plan_count_entries_open("none")
     /\ UNCHANGED <<original, plan, status, stream, run>>

(***************************************************************************)
(* Spec: an empty plan directory, a file to import, and invocations whose  *)
(* I/O does not fail.                                                      *)
(***************************************************************************)
\* no plan file is open
Closed ==
  [walk |-> "none", call |-> "none", n |-> 0, from |-> 0, ret |-> 0, pos |-> 0,
   out |-> <<>>]

Start == [op |-> "start", arg |-> 0, fault |-> "none", res |-> "ok", entries |-> -1]

Init ==
  /\ original \in Texts(MaxTextLen)
  /\ plan = NoFile
  /\ status = NoFile
  /\ stdout = <<>>
  /\ last = Start
  /\ handles = 0
  /\ stream = Closed
  /\ run = <<>>

Next ==
  \/ add
  \/ delete
  \/ next("none")
  \/ previous("none")
  \/ \E entry \in Targets : set(entry, "none")
  \/ \E num \in Nums : show(num, "none")
  \/ summary("none")
  \/ summary_all

Spec == Init /\ [][Next]_vars

(***************************************************************************)
(* SpecIO: any plan directory, and invocations whose I/O may fail.         *)
(***************************************************************************)
InitIO ==
  /\ original = <<"a", NL, SP, "a">>
  /\ plan \in {NoFile} \cup {File(t) : t \in Texts(MaxDiskLen)}
  /\ status \in {NoFile} \cup {File(t) : t \in DiskStatus}
  /\ stdout = <<>>
  /\ last = Start
  /\ handles = 0
  /\ stream = Closed
  /\ run = <<>>

NextIO ==
  \/ add
  \/ delete
  \/ \E f \in Faults : next(f)
  \/ \E f \in Faults : previous(f)
  \/ \E entry \in TargetsIO, f \in Faults : set(entry, f)
  \/ \E num \in NumsIO, f \in Faults : show(num, f)
  \/ \E f \in Faults : summary(f)
  \/ summary_all

SpecIO == InitIO /\ [][NextIO]_vars

(***************************************************************************)
(* SpecStore: the status file alone, under calls of plan_set_entry and     *)
(* plan_get_entry.                                                         *)
(***************************************************************************)
\* the int values handed to plan_set_entry
StoreValues ==
  (-MaxStoreVal..MaxStoreVal)
    \cup {INT_MIN, INT_MIN + 1, -100000, -100, 100, 100000, INT_MAX - 1, INT_MAX}

\* status files found on disk that plan_set_entry did not write
StoreContents ==
  { <<>>, <<"7">>, <<"-", "7">>, <<SP, "7">>, <<TAB, "7">>, <<NL, "7">>,
    <<"+", "7">>, <<"7", SP>>, <<"7", NL>>, <<"7", "x">>, <<"x", "7">>,
    <<"-">>, <<"7", "-", "7">>, <<"0", "0", "7">>,
    <<"2", "1", "4", "7", "4", "8", "3", "6", "4", "8">>,
    [i \in 1..(BufSize - 2) |-> "0"], [i \in 1..(BufSize - 1) |-> "0"] }

\* plan_set_entry(plan, entry) called on its own, lines 485-499
call_plan_set_entry(entry) ==
  LET w == plan_set_entry(entry, "none") IN
  /\ status' = w.file
  /\ Done("plan_set_entry", entry, "none", w.err, -1)
  /\ handles' = 0
  /\ UNCHANGED <<original, plan, stdout, stream, run>>

\* plan_get_entry(plan) called on its own, lines 451-483
call_plan_get_entry ==
  LET r == plan_get_entry("none") IN
  /\ Done("plan_get_entry", r.val, "none", r.err, -1)
  /\ handles' = 0
  /\ UNCHANGED <<original, plan, status, stdout, stream, run>>

InitStore ==
  /\ original = <<>>
  /\ plan = NoFile
  /\ status \in {NoFile} \cup {File(t) : t \in StoreContents}
  /\ stdout = <<>>
  /\ last = Start
  /\ handles = 0
  /\ stream = Closed
  /\ run = <<>>

NextStore ==
  \/ \E entry \in StoreValues : call_plan_set_entry(entry)
  \/ call_plan_get_entry

SpecStore == InitStore /\ [][NextStore]_vars

(***************************************************************************)
(* SpecConc: two invocations of next or previous on the same plan at the   *)
(* same time.  Nothing in the program locks a file, so the calls that      *)
(* reach the file system interleave freely: the read of the plan file, the *)
(* read of the status file, and in plan_set_entry the fopen that truncates *)
(* it, the fprintf into the stream's buffer and the fclose that writes the *)
(* buffer out.                                                             *)
(***************************************************************************)
Procs == {1, 2}

\* a plan of n entries, each a title line
RECURSIVE ConcText(_)
ConcText(n) == IF n = 0 THEN <<>> ELSE ConcText(n - 1) \o <<"a", NL>>

\* a write that lands after what the file holds, as under mode "a"
Overwrite_at_end(old, buf) == old \o buf

\* the bytes of the file after write(2) of buf at offset 0, the offset of a
\* stream opened with "w" that has written nothing yet
Overwrite(old, buf) ==
  IF Len(buf) >= Len(old) THEN buf ELSE buf \o SubSeq(old, Len(buf) + 1, Len(old))

\* an invocation at its first statement
Begin(op) ==
  [pc |-> "count", op |-> op, entries |-> 0, entry |-> 0, seen |-> <<>>,
   buf |-> <<>>, res |-> "ok"]

\* int entries = plan_count_entries(plan), lines 272 and 280
conc_count(p) ==
  /\ run[p].pc = "count"
  /\ run' = [run EXCEPT ![p].pc = "get", ![p].entries = plan_count_entries("none").val]
  /\ UNCHANGED <<original, plan, status, stdout, last, handles, stream>>

\* int entry = plan_get_entry(plan), lines 273 and 281: one fread takes the
\* whole content of the status file as it is at that moment
conc_get(p) ==
  LET r == plan_get_entry("none") IN
  /\ run[p].pc = "get"
  /\ run' = [run EXCEPT ![p].pc = IF r.err = "ok" THEN "fopen" ELSE "failed",
                        ![p].entry = r.val,
                        ![p].seen = status.data,
                        ![p].res = r.err]
  /\ UNCHANGED <<original, plan, status, stdout, last, handles, stream>>

\* fopen(path, "w") of plan_set_entry, line 491: the file is truncated
conc_fopen(p) ==
  /\ run[p].pc = "fopen"
  /\ status' = File(<<>>)
  /\ run' = [run EXCEPT ![p].pc = "fprintf"]
  /\ UNCHANGED <<original, plan, stdout, last, handles, stream>>

\* fprintf(status, "%d", entry) of plan_set_entry, line 494, with the clamp of
\* lines 274-275 and 282-283: the text goes to the stream's buffer
conc_fprintf(p) ==
  LET moved == IF run[p].op = "next" THEN run[p].entry + 1 ELSE run[p].entry - 1 IN
  /\ run[p].pc = "fprintf"
  /\ run' = [run EXCEPT ![p].pc = "fclose",
                        ![p].buf = FormatInt(clamp(1, moved, run[p].entries + 1))]
  /\ UNCHANGED <<original, plan, status, stdout, last, handles, stream>>

\* fclose(status) of plan_set_entry, line 497: the buffer is written out
conc_fclose(p) ==
  /\ run[p].pc = "fclose"
  /\ status' = File(Overwrite(status.data, run[p].buf))
  /\ run' = [run EXCEPT ![p].pc = "done"]
  /\ UNCHANGED <<original, plan, stdout, last, handles, stream>>

\* the state add and the navigation commands leave, and two invocations begun
InitConc ==
  /\ original = <<>>
  /\ \E n \in 0..MaxConcEntries, c \in 1..(MaxConcEntries + 1) :
        /\ c <= n + 1
        /\ plan = File(ConcText(n))
        /\ status = File(FormatInt(c))
  /\ stdout = <<>>
  /\ last = Start
  /\ handles = 0
  /\ stream = Closed
  /\ run \in [Procs -> {Begin("next"), Begin("previous")}]

NextConc ==
  \/ \E p \in Procs : conc_count(p)
  \/ \E p \in Procs : conc_get(p)
  \/ \E p \in Procs : conc_fopen(p)
  \/ \E p \in Procs : conc_fprintf(p)
  \/ \E p \in Procs : conc_fclose(p)

SpecConc == InitConc /\ [][NextConc]_vars

(***************************************************************************)
(* SpecShow: any plan file with any positive cursor in its status file,    *)
(* under show and summary.                                                 *)
(***************************************************************************)
InitShow ==
  /\ original = <<>>
  /\ plan \in {File(t) : t \in Texts(MaxTextLen)}
  /\ status \in {File(FormatInt(c)) : c \in 1..MaxCursor}
  /\ stdout = <<>>
  /\ last = Start
  /\ handles = 0
  /\ stream = Closed
  /\ run = <<>>

NextShow ==
  \/ \E num \in Nums : show(num, "none")
  \/ summary("none")

SpecShow == InitShow /\ [][NextShow]_vars

(***************************************************************************)
(* SpecScan: one plan file, opened and walked call by call the way         *)
(* plan_count_entries and show walk it.                                    *)
(***************************************************************************)
\* fopen and the getc of line 383, which consumes the first byte
count_getc ==
  /\ stream' = [walk |-> "count", call |-> "getc", n |-> 0, from |-> 1, ret |-> 0,
                pos |-> IF getc(plan.data, 1) = EOF THEN 1 ELSE 2, out |-> <<>>]
  /\ UNCHANGED <<original, plan, status, stdout, last, handles, run>>

\* fopen and the getc of line 310, pushed back by the ungetc of line 320
\* unless the byte is a blank
show_getc ==
  /\ stream' = [walk |-> "show", call |-> "getc", n |-> 0, from |-> 1, ret |-> 0,
                pos |-> IF isblank(getc(plan.data, 1)) THEN 2 ELSE 1, out |-> <<>>]
  /\ UNCHANGED <<original, plan, status, stdout, last, handles, run>>

\* one call of plan_file_next_entry: by the loop of line 387, which ends at
\* the first call that returns 1 and is not entered for an empty file, or by
\* the loop of lines 322-323, which does not look at what the call returns
call_plan_file_next_entry ==
  LET r == plan_file_next_entry(plan.data, stream.pos) IN
  /\ \/ /\ stream.walk = "count"
        /\ stream.ret = 0
        /\ getc(plan.data, 1) # EOF
     \/ /\ stream.walk = "show"
        /\ stream.call \in {"getc", "next_entry"}
        /\ stream.n < MaxCursor
  /\ stream' = [walk |-> stream.walk, call |-> "next_entry", n |-> stream.n + 1,
                from |-> stream.pos, ret |-> r.ret, pos |-> r.pos, out |-> <<>>]
  /\ UNCHANGED <<original, plan, status, stdout, last, handles, run>>

\* one call of plan_file_print_entry by the loop of lines 324-326, which
\* ends at the first call that does not return 0
call_plan_file_print_entry ==
  LET r == plan_file_print_entry(plan.data, stream.pos) IN
  /\ stream.walk = "show"
  /\ stream.call = "print_entry" => stream.ret = 0
  /\ stream' = [walk |-> "show", call |-> "print_entry", n |-> stream.n,
                from |-> stream.pos, ret |-> r.ret, pos |-> r.pos, out |-> r.out]
  /\ UNCHANGED <<original, plan, status, stdout, last, handles, run>>

InitScan ==
  /\ original = <<>>
  /\ plan \in {File(t) : t \in Texts(MaxScanLen)}
  /\ status = File(<<"1">>)
  /\ stdout = <<>>
  /\ last = Start
  /\ handles = 0
  /\ stream = Closed
  /\ run = <<>>

NextScan ==
  \/ count_getc
  \/ show_getc
  \/ call_plan_file_next_entry
  \/ call_plan_file_print_entry

SpecScan == InitScan /\ [][NextScan]_vars

(***************************************************************************)
(* The plan format as the specification words it, written without the      *)
(* scanner: lines, title lines, entries and their rendering.               *)
(***************************************************************************)
Min(a, b) == IF a < b THEN a ELSE b

Max(a, b) == IF a > b THEN a ELSE b

\* the value restricted to [low, high]
Saturate(val, low, high) == Max(low, Min(val, high))

\* base-10 text of k >= 0
RECURSIVE Decimal(_)
Decimal(k) ==
  LET digit == <<"0", "1", "2", "3", "4", "5", "6", "7", "8", "9">>[(k % 10) + 1] IN
  IF k < 10 THEN <<digit>> ELSE Decimal(k \div 10) \o <<digit>>

\* index of the first newline of t, 0 if it has none
FirstNL(t) ==
  IF \E i \in 1..Len(t) : t[i] = NL
    THEN CHOOSE i \in 1..Len(t) : t[i] = NL /\ \A j \in 1..(i - 1) : t[j] # NL
    ELSE 0

\* the lines of t, without their newlines; a final newline ends the last line
RECURSIVE SplitLines(_)
SplitLines(t) ==
  IF t = <<>> THEN <<>>
  ELSE IF FirstNL(t) = 0 THEN <<t>>
  ELSE <<SubSeq(t, 1, FirstNL(t) - 1)>> \o SplitLines(SubSeq(t, FirstNL(t) + 1, Len(t)))

\* a title line does not begin with a space or a tab (an empty line begins
\* with its newline)
IsTitleLine(line) == line = <<>> \/ line[1] \notin {SP, TAB}

TitleLines(t) == {i \in 1..Len(SplitLines(t)) : IsTitleLine(SplitLines(t)[i])}

\* the number of entries of text t by the indentation rule
NumEntries(t) == Cardinality(TitleLines(t))

\* the line number of the title of entry k
TitleOf(t, k) ==
  CHOOSE i \in TitleLines(t) : Cardinality({j \in TitleLines(t) : j <= i}) = k

\* the line number of the last line of entry k
LastLineOf(t, k) ==
  IF k < NumEntries(t) THEN TitleOf(t, k + 1) - 1 ELSE Len(SplitLines(t))

RECURSIVE StripBlanks(_)
StripBlanks(line) ==
  IF line # <<>> /\ line[1] \in {SP, TAB} THEN StripBlanks(Tail(line)) ELSE line

\* description lines from..to of t, each re-indented to one tab
RECURSIVE RenderedDescription(_, _, _)
RenderedDescription(t, from, to) ==
  IF from > to THEN <<>>
  ELSE <<TAB>> \o StripBlanks(SplitLines(t)[from]) \o <<NL>>
       \o RenderedDescription(t, from + 1, to)

\* entry k of t as it is to be displayed
RenderedEntry(t, k) ==
  SplitLines(t)[TitleOf(t, k)] \o <<NL>>
  \o RenderedDescription(t, TitleOf(t, k) + 1, LastLineOf(t, k))

\* N as the navigation commands obtain it, and the cursor the status file holds
CountedEntries == CountEntries(plan.data)

HoldsCursor(k) == status.exists /\ status.data = Decimal(k)

Stored == CHOOSE k \in 1..(CountedEntries + 1) : HoldsCursor(k)

(***************************************************************************)
(* Claims.                                                                 *)
(***************************************************************************)
\* C1: on a plan created by add, after any advance, retreat and jump with any
\* target, the status file holds a cursor in [1, N+1]: N the count the
\* commands use, which never exceeds the number of entries of the text.
C1_CursorInRange ==
  plan.exists =>
    /\ \E k \in 1..(CountedEntries + 1) : HoldsCursor(k)
    /\ CountedEntries <= NumEntries(plan.data)

\* reached: a jump far past the end of a plan of two or more entries landed on N+1
C1_Witness ==
  /\ last.op = "set" /\ last.arg = 100000 /\ last.res = "ok"
  /\ CountedEntries >= 2
  /\ HoldsCursor(CountedEntries + 1)

\* C2: advance stores clamp(cursor + 1, 1, N+1) and retreat stores
\* clamp(cursor - 1, 1, N+1); so advance at N+1 and retreat at 1 change nothing.
C2_AdvanceRetreat ==
  [][/\ (last'.op = "next" /\ last'.res = "ok") =>
          /\ status' = File(Decimal(Saturate(Stored + 1, 1, CountedEntries + 1)))
          /\ (Stored = CountedEntries + 1 => status' = status)
     /\ (last'.op = "previous" /\ last'.res = "ok") =>
          /\ status' = File(Decimal(Saturate(Stored - 1, 1, CountedEntries + 1)))
          /\ (Stored = 1 => status' = status)]_vars

\* reached: a retreat that left the cursor at 1 on a plan that has entries
C2_Witness ==
  /\ last.op = "previous" /\ last.res = "ok"
  /\ CountedEntries >= 2
  /\ HoldsCursor(1)

\* C3: jump stores clamp(target, 1, N+1) for every target, below 1 or far
\* above N+1, on every plan, the empty one too.
C3_Jump ==
  (last.op = "set" /\ last.res = "ok") =>
     status = File(Decimal(Saturate(last.arg, 1, CountedEntries + 1)))

\* reached: a jump to -100 on the empty plan
C3_Witness ==
  /\ last.op = "set" /\ last.arg = -100 /\ last.res = "ok"
  /\ plan = File(<<>>)
  /\ HoldsCursor(1)

\* C4: with the cursor at the end of the plan, N+1, show succeeds and writes
\* nothing at all, whatever its count.
C4_ShowAtEndWritesNothing ==
  (last.op = "show" /\ last.res = "ok" /\ HoldsCursor(CountedEntries + 1)) =>
     stdout = <<>>

\* a status file as the specification wants it: one base-10 integer, an
\* optional minus sign and digits, and nothing else
CleanInteger(t) ==
  LET digits == IF t # <<>> /\ t[1] = "-" THEN Tail(t) ELSE t IN
  /\ digits # <<>>
  /\ \A i \in 1..Len(digits) : isdigit(digits[i])

\* the commands that consult the cursor
CursorCommands == {"next", "previous", "set", "show", "summary"}

\* C5: a status file that is not a clean integer ("12x") makes each of
\* advance, retreat, jump, show and summarize fail as corrupt, and the failing
\* command leaves the status file as it was.
C5_CorruptFailsEveryCommand ==
  [][(/\ plan.exists /\ status.exists /\ ~CleanInteger(status.data)
      /\ last'.op \in CursorCommands /\ last'.fault = "none")
       => (last'.res = "Corrupt" /\ status' = status)]_vars

\* C6: with the plan file or the status file absent, each of advance, retreat,
\* jump, show and summarize ends in a not-found error and creates or changes
\* no file.
C6_MissingFileFailsEveryCommand ==
  [][(/\ (~plan.exists \/ ~status.exists)
      /\ last'.op \in CursorCommands /\ last'.fault = "none")
       => (last'.res = "NotFound" /\ plan' = plan /\ status' = status)]_vars

\* the cursor a navigation command is to store, from the files it finds
NewCursor(op, arg) ==
  LET cur == parse_int(status.data).val IN
  Saturate(CASE op = "next" -> cur + 1 [] op = "previous" -> cur - 1 [] OTHER -> arg,
           1, CountedEntries + 1)

\* C7: after advance, retreat or jump, also when a read, open or write step
\* fails, the status file holds the whole new cursor or exactly what it held
\* before; it is never left empty or partly written.
C7_AllOrNothing ==
  [][(status.exists /\ last'.op \in {"next", "previous", "set"})
       => \/ status' = status
          \/ status' = File(Decimal(NewCursor(last'.op, last'.arg)))]_vars

\* C8: show and summarize never change the status file or the plan file,
\* whether they succeed or fail.
C8_ShowSummaryChangeNothing ==
  [][last'.op \in {"show", "summary"} => (plan' = plan /\ status' = status)]_vars

\* reached: a show that printed an entry, with both files present
C8_Witness ==
  /\ last.op = "show" /\ last.res = "ok" /\ last.arg >= 1
  /\ plan.exists /\ status.exists
  /\ Len(stdout) >= 2

\* C9: count entries returns the number of entries by the indentation rule,
\* the number of lines that do not begin with a space or a tab; 0 for the
\* empty text.
C9_CountIsNumberOfTitleLines ==
  last.entries >= 0 => last.entries = NumEntries(plan.data)

\* "<plan> (end of plan)" and its newline
EndOfPlanLine == <<"p", " ", "(", "e", "n", "d", " ", "o", "f", " ", "p", "l", "a", "n", ")", NL>>

\* "<plan> (c/n): "
ProgressPrefix(c, n) == <<"p", " ", "(">> \o Decimal(c) \o <<"/">> \o Decimal(n) \o <<")", ":", " ">>

\* C10: summarize reports "end of plan" and nothing more exactly when
\* cursor > N; otherwise it reports cursor/N and renders exactly one entry,
\* the entry whose number is the cursor.
C10_Summarize ==
  (last.op = "summary" /\ last.res = "ok") =>
     /\ (Stored > CountedEntries) <=> (stdout = EndOfPlanLine)
     /\ Stored <= CountedEntries =>
          stdout = ProgressPrefix(Stored, CountedEntries)
                   \o RenderedEntry(plan.data, Stored)

\* reached: a summary of entry 2 of a plan whose entry 1 has a description
C10_Witness ==
  /\ last.op = "summary" /\ last.res = "ok"
  /\ HoldsCursor(2) /\ CountedEntries >= 2
  /\ LastLineOf(plan.data, 1) > TitleOf(plan.data, 1)
  /\ stdout # EndOfPlanLine

\* base-10 text of an int: a minus sign for a negative value, then the digits
SignedDecimal(v) ==
  IF v >= 0 THEN Decimal(v)
  ELSE IF v = INT_MIN THEN <<"-", "2", "1", "4", "7", "4", "8", "3", "6", "4", "8">>
  ELSE <<"-">> \o Decimal(-v)

\* C11: writing the cursor v leaves a status file that is the base-10 text of
\* v, nothing before or after it, and reading the cursor right after the write
\* returns v; this for zero, negative values and both ends of int.
C11_RoundTrip ==
  [][ /\ last'.op = "plan_set_entry" =>
           /\ last'.res = "ok"
           /\ status'.exists
           /\ status'.data = SignedDecimal(last'.arg)
      /\ (last.op = "plan_set_entry" /\ last'.op = "plan_get_entry") =>
           /\ last'.res = "ok"
           /\ last'.arg = last.arg ]_vars

\* the smallest int was written and read back
C11_Witness ==
  /\ last.op = "plan_get_entry"
  /\ last.res = "ok"
  /\ last.arg = INT_MIN
  /\ status.data = <<"-", "2", "1", "4", "7", "4", "8", "3", "6", "4", "8">>

\* the cursor values a plan of n entries can hold, as text
CursorTexts(n) == {Decimal(k) : k \in 1..(n + 1)}

\* C12: a read of the cursor by one invocation while another is writing it
\* observes a whole cursor value, the old or the new one, never empty or
\* partial content, and does not fail as corrupt.
C12_ReadSeesWholeValue ==
  \A p \in DOMAIN run :
    run[p].pc \notin {"count", "get"} =>
      /\ run[p].seen \in CursorTexts(CountedEntries)
      /\ run[p].res # "Corrupt"

\* C13: two invocations of next that both read the cursor c before either
\* writes leave c + 1 (held to N + 1) in the status file when both are done:
\* one of the two steps is lost.
C13_LostUpdate ==
  (/\ DOMAIN run = Procs
   /\ \A p \in Procs : run[p].op = "next" /\ run[p].pc = "done"
   /\ run[1].entry = run[2].entry)
  => status.data = Decimal(Min(run[1].entry + 1, CountedEntries + 1))

\* both read c with c + 2 <= N + 1, and c + 1 is what is stored
C13_Witness ==
  /\ DOMAIN run = Procs
  /\ \A p \in Procs : run[p].op = "next" /\ run[p].pc = "done"
  /\ run[1].entry = run[2].entry
  /\ run[1].entry + 2 <= CountedEntries + 1
  /\ status.data = Decimal(run[1].entry + 1)

\* the offset in t, from 1, of the first byte of line i
RECURSIVE LineStart(_, _)
LineStart(t, i) ==
  IF i = 1 THEN 1 ELSE LineStart(t, i - 1) + Len(SplitLines(t)[i - 1]) + 1

\* the offset of the first byte of the title line of entry k
TitleStart(t, k) == LineStart(t, TitleOf(t, k))

\* entries from..to of t as they are to be displayed, in order
RECURSIVE RenderedRange(_, _, _)
RenderedRange(t, from, to) ==
  IF from > to THEN <<>> ELSE RenderedEntry(t, from) \o RenderedRange(t, from + 1, to)

\* the cursor in the status file
CursorOnDisk == CHOOSE k \in 1..(MaxCursor + 1) : status.data = Decimal(k)

StartsOnTitle(t) == t # <<>> /\ t[1] \notin {SP, TAB}

StartsOnBlank(t) == t # <<>> /\ t[1] \in {SP, TAB}

\* C14: for a plan text that starts on a title line and has N entries, show
\* with count at a cursor c of 1..N passes over c - 1 entries, so that its
\* stream stands on the title of entry c, and prints entries c up to
\* min(c + count - 1, N) in order and nothing more; a count of 0 or less
\* prints nothing.
C14_ShowRendersRange ==
  (/\ last.op = "show"
   /\ last.res = "ok"
   /\ StartsOnTitle(plan.data)
   /\ CursorOnDisk \in 1..NumEntries(plan.data))
  => /\ SkipEntries(plan.data, 1, CursorOnDisk - 1) = TitleStart(plan.data, CursorOnDisk)
     /\ ShowSeek(plan.data, CursorOnDisk) = TitleStart(plan.data, CursorOnDisk)
     /\ stdout = RenderedRange(plan.data, CursorOnDisk,
                               Min(CursorOnDisk + last.arg - 1, NumEntries(plan.data)))
     /\ last.arg <= 0 => stdout = <<>>

\* show of two entries from the last entry of a text of two: the one entry
\* left is printed
C14_Witness ==
  /\ last.op = "show"
  /\ last.res = "ok"
  /\ last.arg = 2
  /\ plan.data = <<"a", NL, "a", NL>>
  /\ CursorOnDisk = 2
  /\ stdout = <<"a", NL>>

\* C15: for a plan text whose first byte is a space or a tab, show at a
\* cursor c of 1..N makes c skip calls after that byte, not c - 1, which
\* puts its stream on the c-th title line of the text; the first entry it
\* prints is that one, and c is the number the count of entries gives it.
C15_BlankStartSameNumbering ==
  (/\ last.op = "show"
   /\ last.res = "ok"
   /\ StartsOnBlank(plan.data)
   /\ CursorOnDisk \in 1..NumEntries(plan.data))
  => /\ SkipEntries(plan.data, 2, CursorOnDisk) = TitleStart(plan.data, CursorOnDisk)
     /\ ShowSeek(plan.data, CursorOnDisk) = TitleStart(plan.data, CursorOnDisk)
     /\ CursorOnDisk <= CountedEntries
     /\ CountedEntries = NumEntries(plan.data)
     /\ stdout = RenderedRange(plan.data, CursorOnDisk,
                               Min(CursorOnDisk + last.arg - 1, NumEntries(plan.data)))

\* show of one entry at cursor 1 of a text that begins with an indented
\* line: the first title line is what is printed
C15_Witness ==
  /\ last.op = "show"
  /\ last.res = "ok"
  /\ last.arg = 1
  /\ plan.data = <<SP, "a", NL, "a">>
  /\ CursorOnDisk = 1
  /\ stdout = <<"a", NL>>

\* the entry of t whose title line begins at offset pos, 0 if there is none
EntryAt(t, pos) ==
  IF \E i \in 1..NumEntries(t) : TitleStart(t, i) = pos
    THEN CHOOSE i \in 1..NumEntries(t) : TitleStart(t, i) = pos
    ELSE 0

\* C16: plan_file_next_entry called with the stream on the first byte of the
\* title line of entry i consumes the lines of entry i and no more: when
\* entry i + 1 exists it returns 0 (more entries) with the stream on the
\* first byte of that entry's title line, and it returns 1 (no more entries)
\* exactly when entry i is the last.  From the start of a text that begins on
\* a title line and has N entries, the k-th call in a row is made on entry k,
\* and the N-th is the one that returns 1.
C16_NextEntrySkipsOneEntry ==
  LET t == plan.data
      i == EntryAt(t, stream.from)
  IN /\ (stream.call = "next_entry" /\ i # 0) =>
          /\ i < NumEntries(t) => stream.ret = 0 /\ stream.pos = TitleStart(t, i + 1)
          /\ stream.ret # 0 <=> i = NumEntries(t)
     /\ (/\ stream.call = "next_entry"
         /\ stream.walk = "show"
         /\ StartsOnTitle(t)
         /\ stream.n <= NumEntries(t)) =>
          /\ i = stream.n
          /\ stream.ret # 0 <=> stream.n = NumEntries(t)

\* the second call in a row on a text of two entries, the second with a
\* description line: it is made on the second entry and returns 1
C16_Witness ==
  /\ plan.data = <<NL, "a", NL, SP, "a">>
  /\ stream.walk = "show"
  /\ stream.call = "next_entry"
  /\ stream.n = 2
  /\ stream.from = 2
  /\ stream.ret = 1

\* C17: plan_file_print_entry called with the stream on the title line of
\* entry i writes the title line as it is, then each description line with
\* its run of leading spaces and tabs replaced by one tab, every line ended
\* by a newline whether the text has it or not; it leaves the stream on the
\* first byte of the next title line, and returns non-zero (no more entries)
\* exactly when no entry follows.
C17_PrintEntryRenders ==
  LET t == plan.data
      i == EntryAt(t, stream.from)
  IN (stream.call = "print_entry" /\ i # 0) =>
       /\ stream.out = RenderedEntry(t, i)
       /\ stream.out[Len(stream.out)] = NL
       /\ i < NumEntries(t) => stream.ret = 0 /\ stream.pos = TitleStart(t, i + 1)
       /\ stream.ret # 0 <=> i = NumEntries(t)

\* an entry whose description line begins with two blanks and lacks its
\* newline: one tab and a newline are written
C17_Witness ==
  /\ plan.data = <<"a", NL, SP, TAB, "a">>
  /\ stream.call = "print_entry"
  /\ stream.from = 1
  /\ stream.ret = 1
  /\ stream.out = <<"a", NL, TAB, "a", NL>>

\* one base-10 integer and nothing else: an optional sign, then digits only
WholeInteger(t) ==
  LET digits == IF t # <<>> /\ t[1] \in {"-", "+"} THEN Tail(t) ELSE t IN
  /\ digits # <<>>
  /\ \A i \in 1..Len(digits) : digits[i] \in {"0", "1", "2", "3", "4", "5", "6", "7", "8", "9"}

\* C18: reading the cursor returns an integer only when the whole content of
\* the status file is one base-10 integer; content that is empty, too long
\* for the buffer, or has any other character anywhere (white space before or
\* after the number, a newline at the end, other trailing characters) makes
\* the read fail as corrupt.
C18_OnlyWholeIntegerIsRead ==
  (last.op = "plan_get_entry" /\ status.exists) =>
    /\ last.res = "ok" => WholeInteger(status.data)
    /\ (\/ status.data = <<>>
        \/ Len(status.data) >= BufSize
        \/ ~WholeInteger(status.data)) => last.res = "Corrupt"

\* C19: every operation has closed each file handle it opened when it
\* returns: no invocation is left holding an open handle.
C19_NoHandleLeftOpen == handles = 0

\* the number of cursors at which show has an entry to print: the entries
\* its walk finds
ShowFinds(t) == Cardinality({k \in 1..(Len(t) + 1) : ShowSeek(t, k) <= Len(t)})

\* C20: the count of entries and the walk of show agree on every plan text:
\* the count is the number of entries the walk finds, so summary reports the
\* end of the plan exactly when show at the same cursor has no entry left to
\* print, and show prints no entry beyond the count.
C20_CountAgreesWithShow ==
  (last.op = "summary" /\ last.res = "ok") =>
    /\ CountedEntries = ShowFinds(plan.data)
    /\ stdout = EndOfPlan <=> ShowSeek(plan.data, CursorOnDisk) > Len(plan.data)

====
